---- MODULE Spec2Model ----
(***************************************************************************)
(* found.as editor (src/src/app.tsx): the password-derived signing         *)
(* identity, the three signed requests (write 1, read 2, rotate 3), the    *)
(* single AbortController shared by every request, and the two effects of  *)
(* App that derive the key pair and debounce the read.                     *)
(*                                                                         *)
(* One action is one browser task: an input event, a timer callback, the   *)
(* completion of a derivation or of a fetch, together with the re-render   *)
(* and the effects that the state it sets triggers.  The rejection of an   *)
(* aborted fetch is delivered by the microtask queue right after the task  *)
(* that called abort(): it is its own action (AbortNotify) and every other *)
(* action waits for it (abortQ = {}).                                      *)
(*                                                                         *)
(* Time is counted in steps of TickMs; a timer fires at or after its       *)
(* delay has elapsed.  A derivation and a fetch take any amount of time.   *)
(*                                                                         *)
(* alert is the message window.alert showed in the last step.  ev, burst,  *)
(* sinceEdit, burstReads, lastRead, lastWrite and settled observe the run  *)
(* (the request the last step sent or settled, the reads of the current    *)
(* burst of edits, the last write that succeeded, the read that set        *)
(* pwStatus to true); no action reads them except to keep them.            *)
(***************************************************************************)
EXTENDS Integers, Sequences, FiniteSets, Bags, TLC

\* ---- bounds of the model ----
Paths == {"", "a"}
Pws == {"", "x"}
Texts == {"", "t"}
Files == {"", "f", "big"}
MaxInput == 3
TickMs == 100

\* ---- constants of the program ----
HTML_PAGE == 0
MARKDOWN_PAGE == 1
REDIR == 2
BYTES == 3
Types == {HTML_PAGE, MARKDOWN_PAGE, REDIR, BYTES}
Debounce == 200
OpWrite == 1
OpRead == 2
OpRotate == 3

VARIABLES
  path, pw, newPw, kp, pwStatus, pathIsNew, working, refreshTimeout, file,
  priv, popover,
  postSingleton, inflight, abortQ,
  timers, cleanup, deriving, rotating, reading,
  alert, server, nInput,
  ev, sinceEdit, burst, burstReads, lastRead, lastWrite, settled

vars == <<path, pw, newPw, kp, pwStatus, pathIsNew, working, refreshTimeout,
          file, priv, popover, postSingleton, inflight, abortQ, timers,
          cleanup, deriving, rotating, reading, alert, server, nInput,
          ev, sinceEdit, burst, burstReads, lastRead, lastWrite,
          settled>>

\* ---- identity derivation ----
\* PBKDF2 over pw salted with "found.as/" + path, expanded to an Ed25519 pair:
\* a deterministic, collision-free function of (path, pw).
deriveKP(p, w) == [path |-> p, pw |-> w]
\* useState<SignKeyPair | null>(null)
NoKP == [path |-> "null", pw |-> "null"]

\* ---- content model ----
Privates == [type : Types, md : Texts, html : Texts, redir : Texts]
InitPriv == [type |-> REDIR, md |-> "", html |-> "", redir |-> ""]
NoPub == [kind |-> "null", body |-> ""]
\* the pub memo sending the rendering of the Markdown source as is, without
\* the document around it
pubOfNoDoc(pr, f) ==
  IF pr.type = REDIR THEN [kind |-> "redir", body |-> pr.redir]
  ELSE IF pr.type = BYTES /\ f # "" THEN NoPub
  ELSE IF pr.type = HTML_PAGE THEN [kind |-> "html", body |-> pr.html]
  ELSE [kind |-> "html", body |-> pr.md]

\* the pub memo of App; null when the bytes of a selected file are to be sent
pubOf(pr, f) ==
  IF pr.type = REDIR THEN [kind |-> "redir", body |-> pr.redir]
  ELSE IF pr.type = BYTES /\ f # "" THEN NoPub
  ELSE IF pr.type = HTML_PAGE THEN [kind |-> "html", body |-> pr.html]
  ELSE [kind |-> "intoDoc", body |-> pr.md]

\* ---- requests ----
\* a fetch in flight; superseded: a later post has replaced its controller
NewReq(op, k, p, pr, pb, w) ==
  [op |-> op, kp |-> k, path |-> p, priv |-> pr, pub |-> pb, newPw |-> w,
   superseded |-> FALSE]

\* post without the abort of the previous controller
postNoAbort(rq) ==
  /\ inflight' = {[r EXCEPT !.superseded = TRUE] : r \in inflight} \cup {rq}
  /\ postSingleton' = "live"
  /\ abortQ' = {}

\* post: abort the previous controller unless its signal is aborted already,
\* then fetch with a fresh controller.  Aborting a fetch that is pending
\* rejects it with an AbortError; aborting a settled one does nothing.
post(rq) ==
  LET doAbort == postSingleton # "null" /\ postSingleton # "aborted"
      hit == IF doAbort THEN {r \in inflight : ~r.superseded} ELSE {}
  IN /\ inflight' = {[r EXCEPT !.superseded = TRUE] : r \in inflight \ hit}
                      \cup {rq}
     /\ postSingleton' = "live"
     /\ abortQ' = {[r EXCEPT !.superseded = TRUE] : r \in hit}

\* ---- observation of the last step ----
NoEv == [act |-> "", op |-> 0, st |-> 0, kp |-> NoKP, path |-> "", sup |-> FALSE]
Sent(rq) == [act |-> "sent", op |-> rq.op, st |-> 0, kp |-> rq.kp,
             path |-> rq.path, sup |-> FALSE]
Done(rq, st) == [act |-> "done", op |-> rq.op, st |-> st, kp |-> rq.kp,
                path |-> rq.path, sup |-> rq.superseded]
Aborted(rq) == [act |-> "aborted", op |-> rq.op, st |-> 0, kp |-> rq.kp,
                path |-> rq.path, sup |-> TRUE]
NoRead == [kp |-> NoKP, path |-> ""]
\* the last Write that succeeded, with no later change of the store
NoWrite == [path |-> "", kp |-> NoKP, priv |-> InitPriv]

\* ---- timers ----
\* clearTimeout(h); the callers skip the null handle 0
clearTimeout(ts, h) == {t \in ts : t.id # h}
\* the handle setTimeout returns: a positive number that names no live timer
\* of ts and is none of the handles of held that the caller still holds
setTimeout(ts, held) ==
  LET used == {t.id : t \in ts} \cup held
  IN CHOOSE i \in 1..(Cardinality(used) + 1) : i \notin used
Elapse(t) == [t EXCEPT !.left = IF @ > TickMs THEN @ - TickMs ELSE 0]

\* ---- bags of pending asynchronous steps ----
Put(b, x) == b (+) SetToBag({x})
Take(b, x) == b (-) SetToBag({x})

\* ---- the server, as far as the wire contract fixes it ----
Unclaimed == [owner |-> NoKP, priv |-> InitPriv]
SeedPriv == [type |-> MARKDOWN_PAGE, md |-> "t", html |-> "", redir |-> ""]
\* the store when the editor opens: the root path is claimed under one of
\* the passwords, every other path is free
ServerInit ==
  {[p \in Paths |-> IF p = "" THEN [owner |-> deriveKP(p, w), priv |-> SeedPriv]
                    ELSE Unclaimed] : w \in Pws}
ServerOutcome(rq) ==
  LET e == server[rq.path] IN
  IF rq.op = OpRead
  THEN IF e.owner = NoKP THEN 404 ELSE IF e.owner = rq.kp THEN 200 ELSE 403
  ELSE IF rq.op = OpWrite
  THEN IF e.owner = NoKP \/ e.owner = rq.kp THEN 200 ELSE 403
  ELSE IF e.owner = rq.kp THEN 200 ELSE 403
ServerApply(rq) ==
  IF ServerOutcome(rq) # 200 \/ rq.op = OpRead THEN server
  ELSE IF rq.op = OpWrite
  THEN [server EXCEPT ![rq.path] = [owner |-> rq.kp, priv |-> rq.priv]]
  ELSE [server EXCEPT ![rq.path].owner = deriveKP(rq.path, rq.newPw)]

\* ---- Init: App has mounted on "/" and its effects have run once ----
Init ==
  /\ path = ""
  /\ pw = ""
  /\ newPw = ""
  /\ kp = NoKP
  /\ pwStatus = "undefined"
  /\ pathIsNew = FALSE
  /\ working = TRUE
  /\ refreshTimeout = 0
  /\ file = ""
  /\ priv = InitPriv
  /\ popover = FALSE
  /\ postSingleton = "null"
  /\ inflight = {}
  /\ abortQ = {}
  /\ timers = {}
  /\ cleanup = 0
  /\ deriving = SetToBag({[path |-> "", pw |-> ""]})
  /\ rotating = EmptyBag
  /\ reading = EmptyBag
  /\ alert = ""
  /\ server \in ServerInit
  /\ nInput = 0
  /\ ev = NoEv
  /\ sinceEdit = Debounce
  /\ burst = FALSE
  /\ burstReads = 0
  /\ lastRead = NoRead
  /\ lastWrite = NoWrite
  /\ settled = NoRead

\* ---- the effects of App ----
\* derive effect, deps [path, pw]: setWorking(true) and start deriveKP for
\* the path p and password w of the render
deriveEffect(p, w) ==
  deriving' = Put(deriving, [path |-> p, pw |-> w])

\* the debounce effect without its two clearTimeout calls
debounceEffectNoClear(k, p) ==
  LET h == setTimeout(timers, {refreshTimeout})
  IN IF k = NoKP
     THEN UNCHANGED <<timers, refreshTimeout>> /\ cleanup' = 0
     ELSE /\ timers' = timers \cup
                 {[id |-> h, kp |-> k, path |-> p, left |-> Debounce]}
          /\ refreshTimeout' = h
          /\ cleanup' = refreshTimeout

\* debounce effect, deps [path, kp], run for a render with kp = k, path = p:
\* the cleanup of the previous run, then clear refreshTimeout, and when a key
\* pair is known arm a timer that will read (k, p)
debounceEffect(k, p) ==
  LET afterCleanup == IF cleanup # 0 THEN clearTimeout(timers, cleanup) ELSE timers
      cleared == IF refreshTimeout # 0
                 THEN clearTimeout(afterCleanup, refreshTimeout) ELSE afterCleanup
      h == setTimeout(cleared, {refreshTimeout})
  IN IF k = NoKP
     THEN /\ timers' = cleared
          /\ cleanup' = 0
          /\ UNCHANGED refreshTimeout
     ELSE /\ timers' = cleared \cup
                 {[id |-> h, kp |-> k, path |-> p, left |-> Debounce]}
          /\ refreshTimeout' = h
          /\ cleanup' = refreshTimeout

\* the microtasks of the last task have run
Quiet == abortQ = {}
UserCan == Quiet /\ nInput < MaxInput

\* ---- bursts of path / password edits ----
\* nothing asynchronous is pending
Idle ==
  /\ deriving = EmptyBag /\ rotating = EmptyBag /\ reading = EmptyBag
  /\ timers = {} /\ inflight = {}
\* an edit continues the burst when it comes less than Debounce after the
\* previous edit; a burst is followed when it starts from Idle
EditInBurst ==
  LET continues == burst /\ sinceEdit < Debounce
      follows == continues \/ Idle
  IN /\ burst' = follows
     /\ sinceEdit' = IF follows THEN 0 ELSE Debounce
     /\ burstReads' = IF continues THEN burstReads ELSE 0
     /\ lastRead' = IF continues THEN lastRead ELSE NoRead
NoBurst ==
  /\ burst' = FALSE /\ sinceEdit' = Debounce /\ burstReads' = 0 /\ lastRead' = NoRead
Obs == <<sinceEdit, burst, burstReads, lastRead>>

\* ---- input events ----
\* onInput of the path field
SetPath(p) ==
  /\ UserCan
  /\ p # path
  /\ path' = p
  /\ deriveEffect(p, pw)
  /\ debounceEffect(kp, p)
  /\ working' = TRUE
  /\ alert' = ""
  /\ nInput' = nInput + 1
  /\ UNCHANGED <<pw, newPw, kp, pwStatus, pathIsNew, file, priv, popover,
                 postSingleton, inflight, abortQ, rotating, reading, server>>
  /\ ev' = NoEv
  /\ EditInBurst
  /\ UNCHANGED <<lastWrite, settled>>

\* onInput of the password field
SetPw(w) ==
  /\ UserCan
  /\ w # pw
  /\ pw' = w
  /\ deriveEffect(path, w)
  /\ working' = TRUE
  /\ alert' = ""
  /\ nInput' = nInput + 1
  /\ UNCHANGED <<path, newPw, kp, pwStatus, pathIsNew, refreshTimeout, file,
                 priv, popover, postSingleton, inflight, abortQ, timers,
                 cleanup, rotating, reading, server>>
  /\ ev' = NoEv
  /\ EditInBurst
  /\ UNCHANGED <<lastWrite, settled>>

\* the type select starting the new type from empty buffers
SetTypeClears(t) ==
  /\ UserCan
  /\ t # priv.type
  /\ priv' = [type |-> t, md |-> "", html |-> "", redir |-> ""]
  /\ alert' = ""
  /\ nInput' = nInput + 1
  /\ UNCHANGED <<path, pw, newPw, kp, pwStatus, pathIsNew, working,
                 refreshTimeout, file, popover, postSingleton, inflight, abortQ,
                 timers, cleanup, deriving, rotating, reading, server>>
  /\ ev' = NoEv
  /\ UNCHANGED Obs
  /\ UNCHANGED <<lastWrite, settled>>

\* onChange of the type select
SetType(t) ==
  /\ UserCan
  /\ t # priv.type
  /\ priv' = [priv EXCEPT !.type = t]
  /\ alert' = ""
  /\ nInput' = nInput + 1
  /\ UNCHANGED <<path, pw, newPw, kp, pwStatus, pathIsNew, working,
                 refreshTimeout, file, popover, postSingleton, inflight, abortQ,
                 timers, cleanup, deriving, rotating, reading, server>>
  /\ ev' = NoEv
  /\ UNCHANGED Obs
  /\ UNCHANGED <<lastWrite, settled>>

\* onInput of the PageEditor textarea, shown for the two page types
EditPage(x) ==
  /\ UserCan
  /\ priv.type \in {HTML_PAGE, MARKDOWN_PAGE}
  /\ pubOf(priv, file) # NoPub
  /\ IF priv.type = HTML_PAGE
     THEN x # priv.html /\ priv' = [priv EXCEPT !.html = x]
     ELSE x # priv.md /\ priv' = [priv EXCEPT !.md = x]
  /\ alert' = ""
  /\ nInput' = nInput + 1
  /\ UNCHANGED <<path, pw, newPw, kp, pwStatus, pathIsNew, working,
                 refreshTimeout, file, popover, postSingleton, inflight, abortQ,
                 timers, cleanup, deriving, rotating, reading, server>>
  /\ ev' = NoEv
  /\ UNCHANGED Obs
  /\ UNCHANGED <<lastWrite, settled>>

\* onInput of the RedirectEditor input, shown for the redirect type
EditRedir(x) ==
  /\ UserCan
  /\ priv.type = REDIR
  /\ x # priv.redir
  /\ priv' = [priv EXCEPT !.redir = x]
  /\ alert' = ""
  /\ nInput' = nInput + 1
  /\ UNCHANGED <<path, pw, newPw, kp, pwStatus, pathIsNew, working,
                 refreshTimeout, file, popover, postSingleton, inflight, abortQ,
                 timers, cleanup, deriving, rotating, reading, server>>
  /\ ev' = NoEv
  /\ UNCHANGED Obs
  /\ UNCHANGED <<lastWrite, settled>>

\* onChange of the file input, shown for the bytes type: "" is no file,
\* "big" a file over 1MB
SelectFile(f) ==
  /\ UserCan
  /\ priv.type = BYTES
  /\ f # file
  /\ file' = IF f = "big" THEN file ELSE f
  /\ alert' = IF f = "big" THEN "File too large" ELSE ""
  /\ nInput' = nInput + 1
  /\ UNCHANGED <<path, pw, newPw, kp, pwStatus, pathIsNew, working,
                 refreshTimeout, priv, popover, postSingleton, inflight, abortQ,
                 timers, cleanup, deriving, rotating, reading, server>>
  /\ ev' = NoEv
  /\ UNCHANGED Obs
  /\ UNCHANGED <<lastWrite, settled>>

\* the "change" button toggles the popover; it is rendered while the
\* password is accepted for a claimed path
TogglePopover ==
  /\ UserCan
  /\ pwStatus = "true" /\ ~pathIsNew
  /\ popover' = ~popover
  /\ alert' = ""
  /\ nInput' = nInput + 1
  /\ UNCHANGED <<path, pw, newPw, kp, pwStatus, pathIsNew, working,
                 refreshTimeout, file, priv, postSingleton, inflight, abortQ,
                 timers, cleanup, deriving, rotating, reading, server>>
  /\ ev' = NoEv
  /\ UNCHANGED Obs
  /\ UNCHANGED <<lastWrite, settled>>

\* onInput of the new-password field inside the popover
SetNewPw(w) ==
  /\ UserCan
  /\ popover
  /\ w # newPw
  /\ newPw' = w
  /\ alert' = ""
  /\ nInput' = nInput + 1
  /\ UNCHANGED <<path, pw, kp, pwStatus, pathIsNew, working, refreshTimeout,
                 file, priv, popover, postSingleton, inflight, abortQ, timers,
                 cleanup, deriving, rotating, reading, server>>
  /\ ev' = NoEv
  /\ UNCHANGED Obs
  /\ UNCHANGED <<lastWrite, settled>>

\* onClick of the publish button ("now"), when it is not disabled
PublishClick ==
  /\ UserCan
  /\ ~working /\ pwStatus = "true" /\ ~(priv.type = BYTES /\ file = "")
  /\ alert' = ""
  /\ nInput' = nInput + 1
  /\ IF kp = NoKP
     THEN UNCHANGED <<working, postSingleton, inflight, abortQ, reading>>
     ELSE /\ working' = TRUE
          /\ IF pubOf(priv, file) # NoPub
             THEN /\ post(NewReq(OpWrite, kp, path, priv, pubOf(priv, file), ""))
                  /\ UNCHANGED reading
             ELSE /\ reading' = Put(reading, [kp |-> kp, path |-> path,
                                              priv |-> priv, file |-> file])
                  /\ UNCHANGED <<postSingleton, inflight, abortQ>>
  /\ UNCHANGED <<path, pw, newPw, kp, pwStatus, pathIsNew, refreshTimeout,
                 file, priv, popover, timers, cleanup, deriving,
                 rotating, server>>
  /\ ev' = IF kp # NoKP /\ pubOf(priv, file) # NoPub
           THEN Sent(NewReq(OpWrite, kp, path, priv, pubOf(priv, file), ""))
           ELSE NoEv
  /\ UNCHANGED Obs
  /\ UNCHANGED <<lastWrite, settled>>

\* onClick of the "change" button inside the popover
RotateClick ==
  /\ UserCan
  /\ popover
  /\ alert' = ""
  /\ nInput' = nInput + 1
  /\ IF kp = NoKP
     THEN UNCHANGED <<working, rotating>>
     ELSE /\ working' = TRUE
          /\ rotating' = Put(rotating, [kp |-> kp, path |-> path, newPw |-> newPw])
  /\ UNCHANGED <<path, pw, newPw, kp, pwStatus, pathIsNew, refreshTimeout,
                 file, priv, popover, postSingleton, inflight, abortQ, timers,
                 cleanup, deriving, reading, server>>
  /\ ev' = NoEv
  /\ NoBurst
  /\ UNCHANGED <<lastWrite, settled>>

\* ---- completions ----
\* a deriveKP started by the derive effect resolves: setKP(result), then
\* setWorking(false); the render that follows runs the debounce effect
DeriveDone(d) ==
  /\ Quiet
  /\ BagIn(d, deriving)
  /\ kp' = deriveKP(d.path, d.pw)
  /\ deriving' = Take(deriving, d)
  /\ debounceEffect(kp', path)
  /\ working' = TRUE
  /\ alert' = ""
  /\ UNCHANGED <<path, pw, newPw, pwStatus, pathIsNew, file, priv, popover,
                 postSingleton, inflight, abortQ, rotating, reading, server,
                 nInput>>
  /\ ev' = NoEv
  /\ UNCHANGED Obs
  /\ UNCHANGED <<lastWrite, settled>>

\* file.arrayBuffer() of a publish of bytes resolves: updateData posts
FileRead(x) ==
  /\ Quiet
  /\ BagIn(x, reading)
  /\ reading' = Take(reading, x)
  /\ post(NewReq(OpWrite, x.kp, x.path, x.priv,
                 [kind |-> "bytes", body |-> x.file], ""))
  /\ alert' = ""
  /\ UNCHANGED <<path, pw, newPw, kp, pwStatus, pathIsNew, working,
                 refreshTimeout, file, priv, popover, timers, cleanup,
                 deriving, rotating, server, nInput>>
  /\ ev' = Sent(NewReq(OpWrite, x.kp, x.path, x.priv, NoPub, ""))
  /\ UNCHANGED Obs
  /\ UNCHANGED <<lastWrite, settled>>

\* the deriveKP of updatePw resolves: updatePw posts
RotateDerived(x) ==
  /\ Quiet
  /\ BagIn(x, rotating)
  /\ rotating' = Take(rotating, x)
  /\ post(NewReq(OpRotate, x.kp, x.path, InitPriv, NoPub, x.newPw))
  /\ alert' = ""
  /\ UNCHANGED <<path, pw, newPw, kp, pwStatus, pathIsNew, working,
                 refreshTimeout, file, priv, popover, timers, cleanup,
                 deriving, reading, server, nInput>>
  /\ ev' = Sent(NewReq(OpRotate, x.kp, x.path, InitPriv, NoPub, x.newPw))
  /\ UNCHANGED Obs
  /\ UNCHANGED <<lastWrite, settled>>

\* time passes; a timer that is due fires before more time passes
Tick ==
  /\ Quiet
  /\ timers # {} \/ (burst /\ sinceEdit < Debounce)
  /\ \A t \in timers : t.left > 0
  /\ timers' = {Elapse(t) : t \in timers}
  /\ sinceEdit' = IF sinceEdit + TickMs < Debounce THEN sinceEdit + TickMs
                  ELSE Debounce
  /\ alert' = ""
  /\ ev' = NoEv
  /\ UNCHANGED <<path, pw, newPw, kp, pwStatus, pathIsNew, working,
                 refreshTimeout, file, priv, popover, postSingleton, inflight,
                 abortQ, cleanup, deriving, rotating, reading,
                 server, nInput, burst, burstReads, lastRead>>
  /\ UNCHANGED <<lastWrite, settled>>

\* the debounce timer fires: fetchData(kp, path) of the render that armed it
TimerFire(t) ==
  /\ Quiet
  /\ t \in timers
  /\ t.left = 0
  /\ timers' = timers \ {t}
  /\ post(NewReq(OpRead, t.kp, t.path, InitPriv, NoPub, ""))
  /\ alert' = ""
  /\ UNCHANGED <<path, pw, newPw, kp, pwStatus, pathIsNew, working,
                 refreshTimeout, file, priv, popover, cleanup,
                 deriving, rotating, reading, server, nInput>>
  /\ ev' = Sent(NewReq(OpRead, t.kp, t.path, InitPriv, NoPub, ""))
  /\ burstReads' = IF burst THEN burstReads + 1 ELSE burstReads
  /\ lastRead' = IF burst THEN [kp |-> t.kp, path |-> t.path] ELSE lastRead
  /\ UNCHANGED <<sinceEdit, burst>>
  /\ UNCHANGED <<lastWrite, settled>>

\* what the fetch of rq may settle with: the status the server answers, a
\* 500, or no response at all (0: the fetch rejects with a network error)
Settles(rq) == {ServerOutcome(rq), 500, 0}

\* without the upper end of the 4xx range
fetchDataOpenRange(st) ==
  IF st >= 200 /\ st < 300 THEN "return"
  ELSE IF st = 404 THEN "FourOFour"
  ELSE IF st >= 400 THEN "FourXX"
  ELSE "Error"

\* without the 404 case
fetchDataNo404(st) ==
  IF st >= 200 /\ st < 300 THEN "return"
  ELSE IF st >= 400 /\ st < 500 THEN "FourXX"
  ELSE "Error"

\* fetchData after its post has settled: the decoded record is returned, or
\* the class of the error thrown
fetchData(st) ==
  IF st >= 200 /\ st < 300 THEN "return"
  ELSE IF st = 404 THEN "FourOFour"
  ELSE IF st >= 400 /\ st < 500 THEN "FourXX"
  ELSE "Error"

\* updateData and updatePw after their post has settled
updateResult(st) == IF st >= 200 /\ st < 300 THEN "return" ELSE "Error"

\* the then handler without setPathIsNew(false)
readHandlersKeepClaim(e, recvPriv) ==
  IF e = "return"
  THEN priv' = recvPriv /\ pwStatus' = "true" /\ alert' = ""
       /\ UNCHANGED pathIsNew
  ELSE IF e = "FourOFour"
  THEN pwStatus' = "true" /\ pathIsNew' = TRUE /\ alert' = "" /\ UNCHANGED priv
  ELSE IF e = "FourXX"
  THEN pwStatus' = "false" /\ alert' = "" /\ UNCHANGED <<priv, pathIsNew>>
  ELSE IF e = "AbortError"
  THEN alert' = "" /\ UNCHANGED <<priv, pwStatus, pathIsNew>>
  ELSE alert' = e /\ UNCHANGED <<priv, pwStatus, pathIsNew>>

\* the catch handler without the AbortError test: whatever is not a 404 is
\* taken for a rejection of the password
readHandlersAbortRejects(e, recvPriv) ==
  IF e = "return"
  THEN priv' = recvPriv /\ pwStatus' = "true" /\ pathIsNew' = FALSE /\ alert' = ""
  ELSE IF e = "FourOFour"
  THEN pwStatus' = "true" /\ pathIsNew' = TRUE /\ alert' = "" /\ UNCHANGED priv
  ELSE IF e \in {"FourXX", "AbortError"}
  THEN pwStatus' = "false" /\ alert' = "" /\ UNCHANGED <<priv, pathIsNew>>
  ELSE alert' = e /\ UNCHANGED <<priv, pwStatus, pathIsNew>>

\* the then handler without the assignment of the received record
readHandlersKeepPriv(e, recvPriv) ==
  IF e = "return"
  THEN pwStatus' = "true" /\ pathIsNew' = FALSE /\ alert' = "" /\ UNCHANGED priv
  ELSE IF e = "FourOFour"
  THEN pwStatus' = "true" /\ pathIsNew' = TRUE /\ alert' = "" /\ UNCHANGED priv
  ELSE IF e = "FourXX"
  THEN pwStatus' = "false" /\ alert' = "" /\ UNCHANGED <<priv, pathIsNew>>
  ELSE IF e = "AbortError"
  THEN alert' = "" /\ UNCHANGED <<priv, pwStatus, pathIsNew>>
  ELSE alert' = e /\ UNCHANGED <<priv, pwStatus, pathIsNew>>

\* the then and catch handlers of the timer callback
readHandlers(e, recvPriv) ==
  IF e = "return"
  THEN priv' = recvPriv /\ pwStatus' = "true" /\ pathIsNew' = FALSE /\ alert' = ""
  ELSE IF e = "FourOFour"
  THEN pwStatus' = "true" /\ pathIsNew' = TRUE /\ alert' = "" /\ UNCHANGED priv
  ELSE IF e = "FourXX"
  THEN pwStatus' = "false" /\ alert' = "" /\ UNCHANGED <<priv, pathIsNew>>
  ELSE IF e = "AbortError"
  THEN alert' = "" /\ UNCHANGED <<priv, pwStatus, pathIsNew>>
  ELSE alert' = e /\ UNCHANGED <<priv, pwStatus, pathIsNew>>

\* the then and catch handlers of the publish click
writeHandlers(e) ==
  IF e = "return"
  THEN pathIsNew' = FALSE /\ alert' = ""
  ELSE alert' = e /\ UNCHANGED pathIsNew

\* setPw(newPw) whatever the outcome of updatePw
rotateHandlersOptimistic(e, w) ==
  /\ pw' = w
  /\ IF w # pw
     THEN deriveEffect(path, w) /\ working' = TRUE
     ELSE UNCHANGED deriving /\ working' = FALSE
  /\ IF e = "return"
     THEN newPw' = "" /\ popover' = FALSE /\ alert' = ""
     ELSE alert' = e /\ UNCHANGED <<newPw, popover>>

\* the then and catch handlers of the rotate click; setPw(newPw) re-runs the
\* derive effect when it changes the password
rotateHandlers(e, w) ==
  IF e = "return"
  THEN /\ pw' = w
       /\ newPw' = ""
       /\ popover' = FALSE
       /\ alert' = ""
       /\ IF w # pw
          THEN deriveEffect(path, w) /\ working' = TRUE
          ELSE UNCHANGED deriving /\ working' = FALSE
  ELSE /\ alert' = e
       /\ working' = FALSE
       /\ UNCHANGED <<pw, newPw, popover, deriving>>

\* fetchData settles
ReadDone(rq, st) ==
  /\ Quiet
  /\ rq \in inflight
  /\ rq.op = OpRead
  /\ st \in Settles(rq)
  /\ inflight' = inflight \ {rq}
  /\ readHandlers(fetchData(st), server[rq.path].priv)
  /\ working' = FALSE
  /\ ev' = Done(rq, st)
  /\ UNCHANGED <<path, pw, newPw, kp, refreshTimeout, file, popover,
                 postSingleton, abortQ, timers, cleanup, deriving,
                 rotating, reading, server, nInput>>
  /\ UNCHANGED Obs
  /\ UNCHANGED lastWrite
  /\ settled' = IF fetchData(st) \in {"return", "FourOFour"}
                THEN [kp |-> rq.kp, path |-> rq.path]
                ELSE IF fetchData(st) = "FourXX" THEN NoRead ELSE settled

\* updateData settles.  A write that fails at the transport may or may not
\* have reached the server.
WriteDone(rq, st, applied) ==
  /\ Quiet
  /\ rq \in inflight
  /\ rq.op = OpWrite
  /\ st \in Settles(rq)
  /\ st = 200 => applied
  /\ inflight' = inflight \ {rq}
  /\ server' = IF applied THEN ServerApply(rq) ELSE server
  /\ writeHandlers(updateResult(st))
  /\ working' = FALSE
  /\ ev' = Done(rq, st)
  /\ lastWrite' = IF st = 200
                  THEN [path |-> rq.path, kp |-> rq.kp, priv |-> rq.priv]
                  ELSE IF server' # server THEN NoWrite ELSE lastWrite
  /\ UNCHANGED settled
  /\ UNCHANGED <<path, pw, newPw, kp, pwStatus, refreshTimeout, file, priv,
                 popover, postSingleton, abortQ, timers, cleanup,
                 deriving, rotating, reading, nInput>>
  /\ UNCHANGED Obs

\* updatePw settles
RotateDone(rq, st, applied) ==
  /\ Quiet
  /\ rq \in inflight
  /\ rq.op = OpRotate
  /\ st \in Settles(rq)
  /\ st = 200 => applied
  /\ inflight' = inflight \ {rq}
  /\ server' = IF applied THEN ServerApply(rq) ELSE server
  /\ rotateHandlers(updateResult(st), rq.newPw)
  /\ ev' = Done(rq, st)
  /\ lastWrite' = IF server' # server THEN NoWrite ELSE lastWrite
  /\ UNCHANGED settled
  /\ UNCHANGED <<path, kp, pwStatus, pathIsNew, refreshTimeout, file, priv,
                 postSingleton, abortQ, timers, cleanup, rotating,
                 reading, nInput>>
  /\ UNCHANGED Obs

\* the AbortError of a fetch that post aborted reaches the handlers of its
\* caller; every caller ends with setWorking(false)
AbortNotify(rq) ==
  /\ rq \in abortQ
  /\ abortQ' = abortQ \ {rq}
  /\ IF rq.op = OpRead
     THEN /\ readHandlers("AbortError", InitPriv)
          /\ UNCHANGED <<pw, newPw, popover, deriving>>
          /\ working' = FALSE
     ELSE IF rq.op = OpWrite
     THEN /\ writeHandlers("AbortError")
          /\ UNCHANGED <<priv, pwStatus, pw, newPw, popover, deriving>>
          /\ working' = FALSE
     ELSE /\ rotateHandlers("AbortError", rq.newPw)
          /\ UNCHANGED <<priv, pwStatus, pathIsNew>>
  /\ ev' = Aborted(rq)
  /\ UNCHANGED <<path, kp, refreshTimeout, file, postSingleton, inflight,
                 timers, cleanup, rotating, reading, server, nInput>>
  /\ UNCHANGED Obs
  /\ UNCHANGED <<lastWrite, settled>>

Statuses == {200, 403, 404, 500, 0}

Next ==
  \/ \E p \in Paths : SetPath(p)
  \/ \E w \in Pws : SetPw(w)
  \/ \E t \in Types : SetType(t)
  \/ \E x \in Texts : EditPage(x)
  \/ \E x \in Texts : EditRedir(x)
  \/ \E f \in Files : SelectFile(f)
  \/ TogglePopover
  \/ \E w \in Pws : SetNewPw(w)
  \/ PublishClick
  \/ RotateClick
  \/ \E d \in BagToSet(deriving) : DeriveDone(d)
  \/ \E x \in BagToSet(reading) : FileRead(x)
  \/ \E x \in BagToSet(rotating) : RotateDerived(x)
  \/ Tick
  \/ \E t \in timers : TimerFire(t)
  \/ \E rq \in inflight : \E st \in Statuses : ReadDone(rq, st)
  \/ \E rq \in inflight : \E st \in Statuses : \E ap \in BOOLEAN : WriteDone(rq, st, ap)
  \/ \E rq \in inflight : \E st \in Statuses : \E ap \in BOOLEAN : RotateDone(rq, st, ap)
  \/ \E rq \in abortQ : AbortNotify(rq)

Spec == Init /\ [][Next]_vars

\* ---- scheduling ----
\* the steps the browser takes on its own: a started derivation, file read
\* or fetch completes, time passes and a due timer fires, a queued
\* rejection is delivered.  The user is under no obligation to act.
Async ==
  \/ \E d \in BagToSet(deriving) : DeriveDone(d)
  \/ \E x \in BagToSet(reading) : FileRead(x)
  \/ \E x \in BagToSet(rotating) : RotateDerived(x)
  \/ Tick
  \/ \E t \in timers : TimerFire(t)
  \/ \E rq \in inflight : \E st \in Statuses : ReadDone(rq, st)
  \/ \E rq \in inflight : \E st \in Statuses : \E ap \in BOOLEAN : WriteDone(rq, st, ap)
  \/ \E rq \in inflight : \E st \in Statuses : \E ap \in BOOLEAN : RotateDone(rq, st, ap)
  \/ \E rq \in abortQ : AbortNotify(rq)

LiveSpec == Init /\ [][Next]_vars /\ WF_vars(Async)

\* ---- the claims ----
ReadSettled(sts) == ev.act = "done" /\ ev.op = OpRead /\ ev.st \in sts

\* C1: at every moment at most one request sent through post is outstanding
\* (sent, and neither completed nor aborted).
C1_AtMostOneOutstanding == Cardinality(inflight) <= 1
\* post has just aborted a pending request and sent the next one
C1_Witness == abortQ # {} /\ Cardinality(inflight) = 1

\* C2: once a second request has been issued while a first was outstanding,
\* the step in which the first request's outcome reaches its handlers leaves
\* the content record, pwStatus and pathIsNew as they were.
C2_SupersededResponseInert ==
  [][(ev'.act \in {"done", "aborted"} /\ ev'.sup)
       => UNCHANGED <<priv, pwStatus, pathIsNew>>]_vars
\* the outcome of a superseded read has been handled with a settled status
\* to keep and the second request still outstanding
C2_Witness ==
  /\ ev.act = "aborted" /\ ev.op = OpRead
  /\ pwStatus # "undefined" /\ inflight # {}

\* C3: whenever a Read response (success, 404 or other 4xx) is applied, the
\* path and identity the Read was signed with are the current path and the
\* identity derived from the current path and password.
C3_ReadAppliedForCurrentInputs ==
  ReadSettled({200, 404, 403}) =>
    (ev.path = path /\ ev.kp = deriveKP(path, pw))

\* C4: a burst of N >= 1 path or password edits, each within the debounce
\* window of the previous one, results in exactly one Read, sent with the
\* final path and the identity derived from the final path and password.
C4_BurstCoalesced ==
  (burst /\ deriving = EmptyBag /\ timers = {}) =>
    (burstReads = 1 /\ lastRead = [kp |-> deriveKP(path, pw), path |-> path])

\* C5: a completed derivation becomes the active identity only if the path
\* and password it was run for are still the current ones.
C5_DerivationAppliedIfCurrent ==
  [][kp' # kp => kp' = deriveKP(path', pw')]_vars

\* C6: when a Read that was not superseded completes successfully, pwStatus
\* is true, pathIsNew is false and the content record is the server copy.
C6_ReadSuccessSettles ==
  (ReadSettled({200}) /\ ~ev.sup) =>
    (pwStatus = "true" /\ ~pathIsNew /\ priv = server[ev.path].priv)
\* a successful read has replaced a record that differed from the server's
C6_Witness ==
  ReadSettled({200}) /\ ~ev.sup /\ priv = SeedPriv /\ pwStatus = "true"

\* C7: when a Read gets status 404, pwStatus becomes true and pathIsNew true,
\* no error is surfaced and the content record is unchanged.
C7_Read404Unclaimed ==
  [][(ev'.act = "done" /\ ev'.op = OpRead /\ ev'.st = 404)
       => (pwStatus' = "true" /\ pathIsNew' /\ alert' = "" /\ priv' = priv)]_vars
\* a 404 has settled an edited record as unclaimed
C7_Witness == ReadSettled({404}) /\ pathIsNew /\ priv # InitPriv

\* C8: when a Read gets a 4xx status other than 404, the controller settles
\* with ownership false and claim status claimed, whatever they were before.
C8_Read4xxSettles ==
  ReadSettled({403}) => (pwStatus = "false" /\ ~pathIsNew)

\* C9: when a Read fails with a status >= 500 or a network failure, the error
\* is surfaced and pwStatus, pathIsNew and the content record stay as before.
C9_ReadTransientFailure ==
  [][(ev'.act = "done" /\ ev'.op = OpRead /\ ev'.st \in {500, 0})
       => (alert' # "" /\ UNCHANGED <<pwStatus, pathIsNew, priv>>)]_vars
\* a read has failed after the status had settled
C9_Witness == ReadSettled({500, 0}) /\ pwStatus = "true" /\ alert # ""

\* C10: a request cancelled because a newer request superseded it never
\* surfaces an error, whichever operation it was.
C10_CancelledIsSilent == ev.act = "aborted" => alert = ""

\* C11: a Write or a RotatePassword request is sent only in a state where
\* pwStatus is true; while ownership is false or not yet known neither
\* request can be sent.
C11_SentOnlyWhenOwned ==
  (ev.act = "sent" /\ ev.op \in {OpWrite, OpRotate}) => pwStatus = "true"

\* C12: when a RotatePassword succeeds, the new password becomes the current
\* password and pwStatus and pathIsNew go back to not-settled (undefined,
\* false), so that no stale value is visible until the next Read settles.
C12_RotateSuccessClearsStatus ==
  [][(ev'.act = "done" /\ ev'.op = OpRotate /\ ev'.st = 200)
       => /\ \E rq \in inflight : rq.op = OpRotate /\ pw' = rq.newPw
          /\ pwStatus' = "undefined"
          /\ pathIsNew' = FALSE]_vars

\* a RotatePassword has just succeeded (the server accepts it from the owner)
RotateSucceeded == ev.act = "done" /\ ev.op = OpRotate /\ ev.st = 200
\* a Read signed with the identity of the current path and password has just
\* succeeded and the status is settled
FreshSettled ==
  /\ ReadSettled({200}) /\ ev.path = path /\ ev.kp = deriveKP(path, pw)
  /\ pwStatus = "true" /\ ~pathIsNew
\* the server or the network has just failed a request
Transient == ev.act = "done" /\ ev.st \in {500, 0}

\* C13: after a RotatePassword signed by the owner succeeds, unless another
\* input follows or the server fails a request, the controller derives the
\* identity of the new password, sends a Read signed with it and settles
\* with pwStatus true and pathIsNew false.
C13_RotateThenFreshSettle ==
  \A n \in 0..MaxInput :
    (RotateSucceeded /\ nInput = n) ~> (FreshSettled \/ nInput > n \/ Transient)

\* C14: after a Write for a path signed with identity I has succeeded, and
\* with no other Write or RotatePassword changing the store since, a Read
\* of that path signed with I that the server answers succeeds, and the
\* content record after it equals the record that was written.
C14_ReadAfterWrite ==
  (/\ ev.act = "done" /\ ev.op = OpRead /\ ev.st \notin {500, 0}
   /\ lastWrite # NoWrite
   /\ ev.path = lastWrite.path /\ ev.kp = lastWrite.kp)
    => (ev.st = 200 /\ priv = lastWrite.priv)
\* a record other than the seeded one was written to a path that was
\* unclaimed, and a Read signed with the same identity has brought it back
C14_Witness ==
  /\ ReadSettled({200}) /\ lastWrite # NoWrite
  /\ ev.path = lastWrite.path /\ ev.kp = lastWrite.kp
  /\ lastWrite.path = "a" /\ lastWrite.priv \notin {SeedPriv, InitPriv}
  /\ priv = lastWrite.priv

\* C15: when the server rejects a Write or a RotatePassword because the
\* signing identity is not the owner of the path, the failure is reported
\* and the content record, the password, pwStatus and pathIsNew stay as
\* they were.
C15_RejectedLeavesState ==
  [][(ev'.act = "done" /\ ev'.op \in {OpWrite, OpRotate} /\ ev'.st = 403)
       => (alert' # "" /\ UNCHANGED <<priv, pw, pwStatus, pathIsNew>>)]_vars
\* a RotatePassword to a password other than the current one was rejected
C15_Witness ==
  /\ ev.act = "done" /\ ev.op = OpRotate /\ ev.st = 403
  /\ alert # "" /\ newPw # pw /\ popover

\* C16: after a Read fails with a status >= 500 or a network failure no
\* further Read is sent until the user changes the path or the password
\* again: when the failure is handled no debounce timer is armed and no
\* derivation is running that would send one.
C16_NoReadAfterFailure ==
  ReadSettled({500, 0}) => (timers = {} /\ deriving = EmptyBag)

\* C17: at most one debounce timer is live at any time, and it is the one
\* refreshTimeout names: a timer that was rescheduled has been cleared and
\* cannot fire a Read.
C17_SingleLiveTimer ==
  /\ Cardinality(timers) <= 1
  /\ \A t \in timers : t.id = refreshTimeout
\* two path edits within the debounce window from an idle editor: the second
\* has rescheduled the debounce while the timer of the first was live
C17_Witness ==
  /\ burst /\ sinceEdit = 0 /\ burstReads = 0 /\ nInput = 2
  /\ path = "" /\ BagIn([path |-> "a", pw |-> ""], deriving)
  /\ kp # NoKP /\ Cardinality(timers) = 1

\* C18: a switch of the active tag by the user changes only the tag, and an
\* edit by the user changes only the buffer of the active tag: the tag and
\* the other buffers keep their values.
C18_TagSwitchKeepsBuffers ==
  [][(nInput' # nInput /\ priv' # priv) =>
       \/ /\ priv'.type # priv.type
          /\ priv' = [priv EXCEPT !.type = priv'.type]
       \/ /\ priv.type = HTML_PAGE
          /\ priv' = [priv EXCEPT !.html = priv'.html]
       \/ /\ priv.type = MARKDOWN_PAGE
          /\ priv' = [priv EXCEPT !.md = priv'.md]
       \/ /\ priv.type = REDIR
          /\ priv' = [priv EXCEPT !.redir = priv'.redir]]_vars
\* the redirect typed while the redirect tag was active is still there under
\* another tag, next to the Markdown text of that tag
C18_Witness ==
  /\ priv.type = MARKDOWN_PAGE /\ priv.redir = "t" /\ priv.md = "t"
  /\ nInput >= 2 /\ ev = NoEv

\* C20: the debounce of a path or password change runs only with the
\* identity derived for that change, and every Read is sent for the current
\* path signed with the identity derived from it and from the current
\* password.
C20_DebounceAfterDerivation ==
  /\ \A t \in timers : t.kp.path = t.path
  /\ (ev.act = "sent" /\ ev.op = OpRead)
       => (ev.path = path /\ ev.kp = deriveKP(path, pw))

\* C21: every Write carries, next to the content record, the public view of
\* the active tag of that record: the redirect target for REDIR, the HTML
\* source as typed for HTML_PAGE, the document around the rendered Markdown
\* source for MARKDOWN_PAGE, the bytes of a selected file for BYTES; a Write
\* of a BYTES record is never sent without a file.
C21_WriteCarriesView ==
  \A rq \in inflight : rq.op = OpWrite =>
    /\ rq.priv.type = REDIR =>
         rq.pub = [kind |-> "redir", body |-> rq.priv.redir]
    /\ rq.priv.type = HTML_PAGE =>
         rq.pub = [kind |-> "html", body |-> rq.priv.html]
    /\ rq.priv.type = MARKDOWN_PAGE =>
         rq.pub = [kind |-> "intoDoc", body |-> rq.priv.md]
    /\ rq.priv.type = BYTES =>
         (rq.pub.kind = "bytes" /\ rq.pub.body # "")
\* a Write of the bytes of a selected file is in flight
C21_Witness ==
  \E rq \in inflight :
    /\ rq.op = OpWrite /\ rq.priv.type = BYTES
    /\ rq.pub = [kind |-> "bytes", body |-> "f"]

\* C22: every Write is signed with the path and identity for which pwStatus
\* was last settled to true, and none is sent while the derivation of the
\* current path and password, or a debounce or a Read for another path or
\* identity, is still pending.
C22_WriteSignedWithSettled ==
  (ev.act = "sent" /\ ev.op = OpWrite) =>
    /\ settled = [kp |-> ev.kp, path |-> ev.path]
    /\ ~BagIn([path |-> path, pw |-> pw], deriving)
    /\ \A t \in timers : t.kp = ev.kp /\ t.path = ev.path
    /\ \A r \in abortQ : r.op = OpRead => (r.kp = ev.kp /\ r.path = ev.path)

\* C23: working is true in every state where a derivation is running, a
\* debounce timer is pending or a request is outstanding; the completion or
\* cancellation of one of them does not clear it while another is pending.
C23_WorkingWhilePending ==
  (deriving # EmptyBag \/ timers # {} \/ inflight # {}) => working

====
